---- MODULE Spec2Model ----
(***************************************************************************)
(* Model of catalystgo/healthcheck, handler.go: the check registry         *)
(* (livenessChecks, readinessChecks, errorHandler, checksMutex), the       *)
(* request handler (ServeHTTP -> LiveEndpoint/ReadyEndpoint -> handle) and *)
(* the aggregation pass collectChecks with its goroutines: one unit per    *)
(* check, the wait-then-close goroutine and the collector loop.            *)
(***************************************************************************)
EXTENDS Integers, Sequences, FiniteSets, TLC

VARIABLES
    livenessChecks,   \* basicHandler.livenessChecks: name -> Check
    readinessChecks,  \* basicHandler.readinessChecks: name -> Check
    errorHandler,     \* basicHandler.errorHandler ("nil" or a callback)
    readers,          \* number of holders of checksMutex.RLock
    calls,            \* number of calls the environment has made on the Handler
    requests,         \* the requests served so far, one record per request
    evaluated,        \* per collectChecks call: the map it ranged over
    wg,               \* per collectChecks call that made one: the WaitGroup counter
    results,          \* per collectChecks call that made one: the channel's state
    units,            \* the goroutines launched at handler.go:123, by unit id
    crashed           \* an unrecovered panic has ended the process

vars == <<livenessChecks, readinessChecks, errorHandler, readers, calls,
          requests, evaluated, wg, results, units, crashed>>

----------------------------------------------------------------------------
(* Bounds of the model. *)

\* number of calls the environment makes on the Handler: registrations
\* (AddLivenessCheck, AddReadinessCheck, AddCheckErrorHandler) and HTTP
\* requests together
MaxCalls == 3

(* Program constants. *)
LivenessHandlerPath == "/live"
ReadinessHandlerPath == "/ready"
successCheckerResultString == "OK"
MethodGet == "GET"
StatusOK == 200
StatusMethodNotAllowed == 405
StatusServiceUnavailable == 503

(* The environment's inputs. *)
Names == {"a", "b"}
\* Names in the order encoding/json writes the keys of a map (sorted).
NameOrder == <<"a", "b">>
Methods == {MethodGet, "POST"}
\* the two paths NewHandler registers; any other path is answered by the
\* embedded http.ServeMux and never reaches this code
Paths == {LivenessHandlerPath, ReadinessHandlerPath}
\* values of the query parameter "full"
FullParams == {"", "1"}
Handlers == {"h1"}
ErrMsgs == {"failed check", "OK"}
PanicVals == {"boom"}

\* A Check is opaque to the handler: it returns nil, returns an error, or panics.
Checks ==
    {[kind |-> "nil", arg |-> ""]}
    \cup {[kind |-> "err", arg |-> m] : m \in ErrMsgs}
    \cup {[kind |-> "panic", arg |-> v] : v \in PanicVals}

Fails(check) == check.kind # "nil"

----------------------------------------------------------------------------
(* Pure parts of handler.go. *)

\* Variant of MethodAllowed: the method test is missing.
MethodAllowed_Any(method) == TRUE

\* handle: r.Method != http.MethodGet
MethodAllowed(method) == method = MethodGet

\* LiveEndpoint / ReadyEndpoint: the mappings handed to handle, in order.
EndpointChecks(path) ==
    IF path = LivenessHandlerPath THEN <<"liveness">>
    ELSE <<"readiness", "liveness">>

\* Variant of NoChecks: the early return on an empty mapping is missing.
NoChecks_Never(checks) == FALSE

\* collectChecks: len(checks) == 0
NoChecks(checks) == DOMAIN checks = {}

\* Variant of CheckVal: an error that is handed to a registered Error
\* Reporter counts as handled.
CheckVal_ReportedIsOK(check) ==
    IF check.kind = "err" /\ errorHandler = "nil"
    THEN check.arg ELSE successCheckerResultString

\* unit: val = successCheckerResultString; if err != nil { val = err.Error() }
CheckVal(check) ==
    IF check.kind = "err" THEN check.arg ELSE successCheckerResultString

\* unit, deferred: fmt.Sprintf("checker panic recovered: %v", r)
PanicResult(r) == "checker panic recovered: " \o r

\* Variant of NextStatus: the comparison is inverted.
NextStatus_Inverted(status, res) ==
    IF res = successCheckerResultString THEN StatusServiceUnavailable ELSE status

\* collector: if res.result != successCheckerResultString { status = 503 }
NextStatus(status, res) ==
    IF res # successCheckerResultString THEN StatusServiceUnavailable ELSE status

\* Variant of HandleStatus: the status of the last mapping overwrites the
\* status of the earlier ones (status = s.collectChecks(...)).
HandleStatus_LastWins(status, s) == s

\* handle: if s := s.collectChecks(...); s != http.StatusOK { status = s }
HandleStatus(status, s) == IF s # StatusOK THEN s ELSE status

\* json.Encoder with SetIndent("", "    ") on a map[string]string: the entries
\* in key order, one per line, separated by ",\n".
RECURSIVE EncodeEntries(_, _)
EncodeEntries(m, i) ==
    IF i > Len(NameOrder) THEN ""
    ELSE LET k == NameOrder[i]
             rest == EncodeEntries(m, i + 1)
         IN IF k \notin DOMAIN m THEN rest
            ELSE "    \"" \o k \o "\": \"" \o m[k] \o "\""
                 \o (IF rest = "" THEN "" ELSE ",\n" \o rest)

Encode(m) ==
    IF DOMAIN m = {} THEN "{}\n"
    ELSE "{\n" \o EncodeEntries(m, 1) \o "\n}\n"

\* Variant of Body: the query parameter is ignored and the mapping is always
\* encoded.
Body_AlwaysFull(full, checkResults) == Encode(checkResults)

\* handle: the body written after the status code.
Body(full, checkResults) ==
    IF full # "1" THEN "{}\n" ELSE Encode(checkResults)

----------------------------------------------------------------------------
(* State after NewHandler(). *)

Init ==
    /\ livenessChecks = <<>>
    /\ readinessChecks = <<>>
    /\ errorHandler = "nil"
    /\ readers = 0
    /\ calls = 0
    /\ requests = <<>>
    /\ evaluated = <<>>
    /\ wg = <<>>
    /\ results = <<>>
    /\ units = <<>>
    /\ crashed = FALSE

----------------------------------------------------------------------------
(* Helpers on the state. *)

\* The mapping a handle argument refers to (maps are passed by reference).
Registry(set) == IF set = "liveness" THEN livenessChecks ELSE readinessChecks

\* Variant: the first registration of a name is kept.
Register_KeepFirst(m, name, check) == m @@ (name :> check)

\* map assignment m[name] = check
Register(m, name, check) == (name :> check) @@ m

\* The collectChecks call a request is in: <<request, index of the mapping>>.
CurrentPass(r) == <<r, requests[r].idx>>
PassOf(u) == <<u[1], u[2]>>

\* Variant: the write lock is granted while read locks are held.
CanLock_Always(rd) == TRUE

\* checksMutex.Lock() returns only when no read lock is held; rd is the
\* number of read locks held.
CanLock(rd) == rd = 0

\* Variant: a collector receives from the channel of any collectChecks call.
OnChannel_Shared(r, u) == TRUE

\* results is made by each collectChecks call: the collector of request r
\* receives what unit u sends only when u sends on the channel of the call
\* r is in.
OnChannel(r, u) == PassOf(u) = CurrentPass(r)

\* Variant: the range loop ends while the channel is still open.
RangeEnded_Early(ch) == TRUE

\* for res := range results ends when the channel is closed (and, being
\* unbuffered, empty).
RangeEnded(ch) == ch = "closed"

\* s.errorHandler(name, err), guarded by s.errorHandler != nil: the calls a
\* unit has made, extended by this one when a callback is set.
Report(reports, err) ==
    IF errorHandler # "nil"
    THEN Append(reports, [handler |-> errorHandler, err |-> err])
    ELSE reports

\* handle, after one collectChecks call returned s: the loop over the
\* mappings goes on, or the response is written; full is the request's query
\* parameter, which handle reads only there (r.URL.Query().Get("full")).
AfterCollect(rq, s, full) ==
    LET st == HandleStatus(rq.status, s)
    IN IF rq.idx < Len(rq.sets)
       THEN [rq EXCEPT !.status = st, !.idx = rq.idx + 1, !.pc = "collect"]
       ELSE [rq EXCEPT !.status = st, !.pc = "done", !.code = st,
                       !.full = full, !.body = Body(full, rq.checkResults)]

\* The request record when ServeHTTP has routed the request and handle has
\* checked the method.
NewRequest(method, path) ==
    LET base == [method |-> method, path |-> path, full |-> "",
                 pc |-> "done", sets |-> <<>>, idx |-> 0, mapMade |-> FALSE,
                 checkResults |-> <<>>, status |-> 0, pstatus |-> 0,
                 code |-> 0, body |-> ""]
    IN IF ~MethodAllowed(method)
       THEN [base EXCEPT !.code = StatusMethodNotAllowed,
                         !.body = "method not allowed\n"]
       ELSE [base EXCEPT !.pc = "collect", !.sets = EndpointChecks(path),
                         !.idx = 1, !.mapMade = TRUE, !.status = StatusOK]

----------------------------------------------------------------------------
(* Registration. *)

AddLivenessCheck(name, check) ==
    /\ ~crashed
    /\ calls < MaxCalls
    /\ CanLock(readers)                  \* checksMutex.Lock()
    /\ livenessChecks' = Register(livenessChecks, name, check)
    /\ calls' = calls + 1
    /\ UNCHANGED <<readinessChecks, errorHandler, readers, requests,
                   evaluated, wg, results, units, crashed>>

AddReadinessCheck(name, check) ==
    /\ ~crashed
    /\ calls < MaxCalls
    /\ CanLock(readers)                  \* checksMutex.Lock()
    /\ readinessChecks' = Register(readinessChecks, name, check)
    /\ calls' = calls + 1
    /\ UNCHANGED <<livenessChecks, errorHandler, readers, requests,
                   evaluated, wg, results, units, crashed>>

AddCheckErrorHandler(handler) ==
    /\ ~crashed
    /\ calls < MaxCalls
    /\ calls' = calls + 1
    /\ errorHandler' = handler
    /\ UNCHANGED <<livenessChecks, readinessChecks, readers, requests,
                   evaluated, wg, results, units, crashed>>

----------------------------------------------------------------------------
(* A request: ServeHTTP, handle, collectChecks. *)

ServeHTTP(method, path) ==
    /\ ~crashed
    /\ calls < MaxCalls
    /\ calls' = calls + 1
    /\ requests' = Append(requests, NewRequest(method, path))
    /\ UNCHANGED <<livenessChecks, readinessChecks, errorHandler, readers,
                   evaluated, wg, results, units, crashed>>

\* collectChecks from its entry to the start of the collector loop: RLock,
\* the early return on an empty mapping, else the WaitGroup, the channel, one
\* unit per check and the wait-then-close goroutine.
CollectChecks(r, full) ==
    /\ ~crashed
    /\ requests[r].pc = "collect"
    /\ LET p == CurrentPass(r)
           checks == Registry(requests[r].sets[requests[r].idx])
       IN /\ evaluated' = (p :> [checks |-> checks, handler |-> errorHandler])
                          @@ evaluated
          /\ IF NoChecks(checks)
             THEN /\ requests' = [requests EXCEPT
                                    ![r] = AfterCollect(requests[r], StatusOK, full)]
                  /\ UNCHANGED <<readers, wg, results, units>>
             ELSE /\ readers' = readers + 1
                  /\ wg' = (p :> Cardinality(DOMAIN checks)) @@ wg
                  /\ results' = (p :> "open") @@ results
                  /\ units' = [u \in {<<r, requests[r].idx, n>> : n \in DOMAIN checks}
                                 |-> [pc |-> "check", check |-> checks[u[3]],
                                      val |-> "", reports |-> <<>>,
                                      receiver |-> 0]] @@ units
                  /\ requests' = [requests EXCEPT ![r].pc = "range",
                                                  ![r].pstatus = StatusOK]
    /\ UNCHANGED <<livenessChecks, readinessChecks, errorHandler, calls, crashed>>

\* unit, from its start to its send: check() is called. On nil or an error
\* val is set and the Error Reporter is called for the error. On a panic the
\* deferred function runs: wg.Done(), then recover() returns the panic value
\* and the outcome to send is formatted.
RunCheck(u) ==
    /\ ~crashed
    /\ units[u].pc = "check"
    /\ LET c == units[u].check
       IN IF c.kind = "panic"
          THEN /\ wg' = [wg EXCEPT ![PassOf(u)] = @ - 1]
               /\ units' = [units EXCEPT ![u].pc = "psend",
                                         ![u].val = PanicResult(c.arg)]
          ELSE /\ wg' = wg
               /\ units' = [units EXCEPT
                              ![u].pc = "send",
                              ![u].val = CheckVal(c),
                              ![u].reports = IF c.kind = "err"
                                             THEN Report(@, c.arg) ELSE @]
    /\ UNCHANGED <<livenessChecks, readinessChecks, errorHandler, readers,
                   calls, requests, evaluated, results, crashed>>

\* The rendezvous on the unbuffered channel: a unit's send (results <- ...,
\* in the body or in the deferred function) meets the collector's receive,
\* which stores the outcome and updates the status.
Receive(r, u) ==
    /\ ~crashed
    /\ requests[r].pc = "range"
    /\ OnChannel(r, u)
    /\ units[u].pc \in {"send", "psend"}
    /\ results[PassOf(u)] = "open"
    /\ requests' = [requests EXCEPT
                      ![r].checkResults = Register(@, u[3], units[u].val),
                      ![r].pstatus = NextStatus(@, units[u].val)]
    /\ units' = [units EXCEPT ![u].pc = IF @ = "send" THEN "return" ELSE "preport",
                              ![u].receiver = r]
    /\ UNCHANGED <<livenessChecks, readinessChecks, errorHandler, readers,
                   calls, evaluated, wg, results, crashed>>

\* unit, normal return: the deferred function runs wg.Done(); recover() is nil.
UnitReturn(u) ==
    /\ ~crashed
    /\ units[u].pc = "return"
    /\ wg' = [wg EXCEPT ![PassOf(u)] = @ - 1]
    /\ units' = [units EXCEPT ![u].pc = "exit"]
    /\ UNCHANGED <<livenessChecks, readinessChecks, errorHandler, readers,
                   calls, requests, evaluated, results, crashed>>

\* unit, deferred function: the send finds the channel closed. The panic
\* "send on closed channel" is raised inside the deferred function, nothing
\* recovers it, and the process ends.
SendOnClosed(u) ==
    /\ ~crashed
    /\ units[u].pc = "psend"
    /\ results[PassOf(u)] = "closed"
    /\ crashed' = TRUE
    /\ units' = [units EXCEPT ![u].pc = "dead"]
    /\ UNCHANGED <<livenessChecks, readinessChecks, errorHandler, readers,
                   calls, requests, evaluated, wg, results>>

\* unit, deferred function after its send: the Error Reporter is called.
PanicReport(u) ==
    /\ ~crashed
    /\ units[u].pc = "preport"
    /\ units' = [units EXCEPT ![u].pc = "exit",
                              ![u].reports = Report(@, units[u].val)]
    /\ UNCHANGED <<livenessChecks, readinessChecks, errorHandler, readers,
                   calls, requests, evaluated, wg, results, crashed>>

\* go func() { wg.Wait(); close(results) }()
WaitThenClose(p) ==
    /\ ~crashed
    /\ results[p] = "open"
    /\ wg[p] = 0
    /\ results' = [results EXCEPT ![p] = "closed"]
    /\ UNCHANGED <<livenessChecks, readinessChecks, errorHandler, readers,
                   calls, requests, evaluated, wg, units, crashed>>

\* collector: range ends on the closed channel; collectChecks returns its
\* status (RUnlock) and handle goes on.
CollectReturn(r, full) ==
    /\ ~crashed
    /\ requests[r].pc = "range"
    /\ RangeEnded(results[CurrentPass(r)])
    /\ readers' = readers - 1
    /\ requests' = [requests EXCEPT
                      ![r] = AfterCollect(requests[r], requests[r].pstatus, full)]
    /\ UNCHANGED <<livenessChecks, readinessChecks, errorHandler, calls,
                   evaluated, wg, results, units, crashed>>

----------------------------------------------------------------------------

Next ==
    \/ \E n \in Names, c \in Checks : AddLivenessCheck(n, c)
    \/ \E n \in Names, c \in Checks : AddReadinessCheck(n, c)
    \/ \E h \in Handlers : AddCheckErrorHandler(h)
    \/ \E m \in Methods, p \in Paths : ServeHTTP(m, p)
    \/ \E r \in DOMAIN requests, f \in FullParams : CollectChecks(r, f)
    \/ \E u \in DOMAIN units : RunCheck(u)
    \/ \E r \in DOMAIN requests, u \in DOMAIN units : Receive(r, u)
    \/ \E u \in DOMAIN units : UnitReturn(u)
    \/ \E u \in DOMAIN units : SendOnClosed(u)
    \/ \E u \in DOMAIN units : PanicReport(u)
    \/ \E p \in DOMAIN results : WaitThenClose(p)
    \/ \E r \in DOMAIN requests, f \in FullParams : CollectReturn(r, f)

Spec == Init /\ [][Next]_vars

----------------------------------------------------------------------------
(* Vocabulary of the properties. *)

\* The request has been answered.
Done(r) == requests[r].pc = "done"
\* The request passed the method test and has been answered with the status
\* of its evaluation.
Served(r) == Done(r) /\ requests[r].mapMade
\* The collectChecks calls and the units of a request.
PassesOf(r) == {p \in DOMAIN evaluated : p[1] = r}
UnitsOf(r) == {u \in DOMAIN units : u[1] = r}
UnitsOfPass(p) == {u \in DOMAIN units : PassOf(u) = p}
\* The mapping ("liveness" or "readiness") a collectChecks call ranged over,
\* and the checks it found there.
SetOf(p) == requests[p[1]].sets[p[2]]
ChecksOf(p) == evaluated[p].checks
\* The names of all mappings a request evaluated.
NamesOf(r) == UNION {DOMAIN ChecksOf(p) : p \in PassesOf(r)}
\* The outcome string the documentation gives for a check.
ExpectedOutcome(check) ==
    CASE check.kind = "nil" -> "OK"
      [] check.kind = "err" -> check.arg
      [] check.kind = "panic" -> "checker panic recovered: " \o check.arg
\* The last collectChecks call of a request that evaluated the name.
LastPassWith(r, n) ==
    CHOOSE p \in PassesOf(r) :
        /\ n \in DOMAIN ChecksOf(p)
        /\ \A q \in PassesOf(r) : n \in DOMAIN ChecksOf(q) => q[2] <= p[2]
\* Some value of the request's detail mapping is not "OK".
SomeNotOK(r) ==
    \E k \in DOMAIN requests[r].checkResults :
        requests[r].checkResults[k] # successCheckerResultString
\* A name was evaluated by two collectChecks calls of the request.
NameInBoth(r) ==
    \E p, q \in PassesOf(r) :
        p # q /\ DOMAIN ChecksOf(p) \cap DOMAIN ChecksOf(q) # {}

----------------------------------------------------------------------------
(* C1: a check that panics never crashes the evaluation pass: no unit sends *)
(* on the closed results channel, the process survives, and every unit of   *)
(* an answered request (the panicking one and its siblings) has emitted the *)
(* documented outcome and signalled completion.                             *)
C1_PanicIsolated ==
    /\ ~crashed
    /\ \A u \in DOMAIN units :
         units[u].pc = "psend" => results[PassOf(u)] = "open"
    /\ \A r \in DOMAIN requests : Served(r) =>
         \A u \in UnitsOf(r) :
            /\ units[u].pc \in {"exit", "preport"}
            /\ units[u].val = ExpectedOutcome(units[u].check)
            /\ wg[PassOf(u)] = 0

(* C2: an answered GET whose evaluated set holds a check that returned an   *)
(* error (whatever its message) or panicked has status 503.                 *)
C2_FailureIsUnhealthy ==
    \A r \in DOMAIN requests : Served(r) =>
        ((\E p \in PassesOf(r) : \E n \in DOMAIN ChecksOf(p) :
             Fails(ChecksOf(p)[n]))
         => requests[r].code = StatusServiceUnavailable)

(* C3: an answered GET whose evaluated checks all returned success has      *)
(* status 200 and a detail mapping with one entry "OK" per evaluated name.  *)
C3_AllSuccessHealthy ==
    \A r \in DOMAIN requests : Served(r) =>
        ((\A p \in PassesOf(r) : \A n \in DOMAIN ChecksOf(p) :
             ~Fails(ChecksOf(p)[n]))
         => /\ requests[r].code = StatusOK
            /\ DOMAIN requests[r].checkResults = NamesOf(r)
            /\ \A k \in DOMAIN requests[r].checkResults :
                 requests[r].checkResults[k] = successCheckerResultString)

\* C3's case: a GET answered after two checks ran and both succeeded.
C3_Witness ==
    \E r \in DOMAIN requests :
        /\ Served(r)
        /\ Cardinality(UnitsOf(r)) = 2
        /\ \A u \in UnitsOf(r) : ~Fails(units[u].check) /\ units[u].pc = "exit"
        /\ requests[r].code = StatusOK

(* C4: every answered GET on /live or /ready has evaluated the liveness     *)
(* mapping, and when a check found only there (not in the readiness mapping *)
(* of the request) failed, the status is 503.                               *)
C4_LivenessInReadiness ==
    \A r \in DOMAIN requests : Served(r) =>
        /\ \E p \in PassesOf(r) : SetOf(p) = "liveness"
        /\ \A p \in PassesOf(r) : \A n \in DOMAIN ChecksOf(p) :
             ( /\ SetOf(p) = "liveness"
               /\ Fails(ChecksOf(p)[n])
               /\ \A q \in PassesOf(r) :
                    SetOf(q) = "readiness" => n \notin DOMAIN ChecksOf(q) )
             => requests[r].code = StatusServiceUnavailable

(* C5: an answered GET /live evaluated the liveness mapping only: every     *)
(* unit it ran and every entry of its detail mapping belongs to a liveness  *)
(* check, and its status is 200 when all liveness checks succeeded; an      *)
(* answered GET /ready in which a readiness-only check failed has 503.      *)
C5_ReadinessNotInLiveness ==
    \A r \in DOMAIN requests : Served(r) =>
        /\ requests[r].path = LivenessHandlerPath =>
             /\ PassesOf(r) = {<<r, 1>>}
             /\ SetOf(<<r, 1>>) = "liveness"
             /\ \A u \in UnitsOf(r) : u[3] \in DOMAIN ChecksOf(<<r, 1>>)
             /\ DOMAIN requests[r].checkResults \subseteq DOMAIN ChecksOf(<<r, 1>>)
             /\ (\A n \in DOMAIN ChecksOf(<<r, 1>>) : ~Fails(ChecksOf(<<r, 1>>)[n]))
                  => requests[r].code = StatusOK
        /\ requests[r].path = ReadinessHandlerPath =>
             \A p \in PassesOf(r) : \A n \in DOMAIN ChecksOf(p) :
                ( /\ SetOf(p) = "readiness"
                  /\ Fails(ChecksOf(p)[n])
                  /\ \A q \in PassesOf(r) :
                       SetOf(q) = "liveness" => n \notin DOMAIN ChecksOf(q) )
                => requests[r].code = StatusServiceUnavailable

(* C6, as claimed: the status of an answered GET is 503 if and only if some *)
(* value of its detail mapping is not "OK".                                 *)
C6_StatusIffMapping ==
    \A r \in DOMAIN requests : Served(r) =>
        (requests[r].code = StatusServiceUnavailable <=> SomeNotOK(r))

(* C6, amended: the status of an answered GET is 200 or 503; it is 503 when *)
(* some value of the detail mapping is not "OK"; and when no name was       *)
(* evaluated in both mappings of the request, a status 503 comes with a     *)
(* value that is not "OK".                                                  *)
C6_StatusMatchesMapping ==
    \A r \in DOMAIN requests : Served(r) =>
        /\ requests[r].code \in {StatusOK, StatusServiceUnavailable}
        /\ SomeNotOK(r) => requests[r].code = StatusServiceUnavailable
        /\ ~NameInBoth(r) =>
             (requests[r].code = StatusServiceUnavailable => SomeNotOK(r))

\* C6's case: a GET /ready answered after a failing readiness check and a
\* succeeding liveness check of another name.
C6_Witness ==
    \E r \in DOMAIN requests :
        /\ Served(r)
        /\ requests[r].path = ReadinessHandlerPath
        /\ ~NameInBoth(r)
        /\ Cardinality(UnitsOf(r)) = 2
        /\ \E u \in UnitsOf(r) : u[2] = 1 /\ Fails(units[u].check)
        /\ \E u \in UnitsOf(r) : u[2] = 2 /\ ~Fails(units[u].check)
        /\ SomeNotOK(r)
        /\ requests[r].code = StatusServiceUnavailable

(* C7: the detail mapping of an answered GET has exactly the names of the   *)
(* mappings it evaluated as keys, and each value is the outcome ("OK", the  *)
(* error text or the panic diagnostic) of that name's check in the last     *)
(* mapping evaluated that holds the name.                                   *)
C7_OneEntryPerCheck ==
    \A r \in DOMAIN requests : Served(r) =>
        /\ DOMAIN requests[r].checkResults = NamesOf(r)
        /\ \A k \in DOMAIN requests[r].checkResults \cap NamesOf(r) :
             requests[r].checkResults[k]
               = ExpectedOutcome(ChecksOf(LastPassWith(r, k))[k])

(* C8: once a request is answered and a unit of it has ended, the unit has  *)
(* called the Error Reporter registered when its pass began exactly once if *)
(* its check returned an error or panicked and never if it succeeded; with  *)
(* no Error Reporter ever registered no call is made.                       *)
C8_ReportedOncePerFailure ==
    \A r \in DOMAIN requests : Served(r) =>
        \A u \in UnitsOf(r) : units[u].pc \in {"exit", "dead"} =>
            /\ evaluated[PassOf(u)].handler # "nil" =>
                 Len(units[u].reports) = IF Fails(units[u].check) THEN 1 ELSE 0
            /\ errorHandler = "nil" => units[u].reports = <<>>

(* C9: a request whose method is not GET is answered 405 at once: no        *)
(* detail mapping is made, no mapping is evaluated, no unit is launched     *)
(* (so no check runs and no Error Reporter call is made for it).            *)
C9_NonGetRejected ==
    \A r \in DOMAIN requests : requests[r].method # MethodGet =>
        /\ Done(r)
        /\ requests[r].code = StatusMethodNotAllowed
        /\ requests[r].body = "method not allowed\n"
        /\ ~requests[r].mapMade
        /\ requests[r].checkResults = <<>>
        /\ PassesOf(r) = {}
        /\ UnitsOf(r) = {}

\* C9's case: a non-GET request answered while checks and an Error Reporter
\* are registered.
C9_Witness ==
    \E r \in DOMAIN requests :
        /\ requests[r].method # MethodGet
        /\ Done(r)
        /\ DOMAIN livenessChecks \cup DOMAIN readinessChecks # {}
        /\ errorHandler # "nil"

(* C10: a collectChecks call on an empty mapping makes no channel and no    *)
(* WaitGroup, launches no unit and never enters the collector loop; a GET   *)
(* whose evaluated mappings were all empty is answered 200 with an empty    *)
(* detail mapping, body "{}\n", and without any unit.                       *)
C10_EmptySetImmediate ==
    /\ \A p \in DOMAIN evaluated : DOMAIN ChecksOf(p) = {} =>
         /\ p \notin DOMAIN results
         /\ p \notin DOMAIN wg
         /\ UnitsOfPass(p) = {}
    /\ \A r \in DOMAIN requests : requests[r].pc = "range" =>
         DOMAIN ChecksOf(CurrentPass(r)) # {}
    /\ \A r \in DOMAIN requests : (Served(r) /\ NamesOf(r) = {}) =>
         /\ requests[r].code = StatusOK
         /\ requests[r].checkResults = <<>>
         /\ requests[r].body = "{}\n"
         /\ UnitsOf(r) = {}

\* C10's case: GET /ready with full=1 answered with both mappings empty
\* while an Error Reporter is registered.
C10_Witness ==
    \E r \in DOMAIN requests :
        /\ Served(r)
        /\ requests[r].path = ReadinessHandlerPath
        /\ requests[r].full = "1"
        /\ Cardinality(PassesOf(r)) = 2
        /\ NamesOf(r) = {}
        /\ errorHandler # "nil"

----------------------------------------------------------------------------
\* The JSON text of a name-to-outcome mapping as the tests of the handler
\* write it: keys in order, four spaces of indentation, a final newline.
ExpectedBody(m) ==
    CASE DOMAIN m = {} -> "{}\n"
      [] DOMAIN m = {"a"} -> "{\n    \"a\": \"" \o m["a"] \o "\"\n}\n"
      [] DOMAIN m = {"b"} -> "{\n    \"b\": \"" \o m["b"] \o "\"\n}\n"
      [] DOMAIN m = {"a", "b"} ->
           "{\n    \"a\": \"" \o m["a"] \o "\",\n    \"b\": \"" \o m["b"]
           \o "\"\n}\n"

(* C11: the body of an answered GET is "{}\n" when the query parameter full *)
(* is not "1", whatever the status and the mapping, and the indented JSON   *)
(* text of the request's whole detail mapping when it is "1".               *)
C11_BodyFromFlagAndMapping ==
    \A r \in DOMAIN requests : Served(r) =>
        requests[r].body = IF requests[r].full = "1"
                           THEN ExpectedBody(requests[r].checkResults)
                           ELSE "{}\n"

\* C11's case: two GETs answered 503 with a non-empty mapping, one without
\* full=1 and one with it.
C11_Witness ==
    \E r1, r2 \in DOMAIN requests :
        /\ Served(r1) /\ Served(r2)
        /\ requests[r1].code = StatusServiceUnavailable
        /\ requests[r2].code = StatusServiceUnavailable
        /\ requests[r1].full = "" /\ requests[r2].full = "1"
        /\ SomeNotOK(r1) /\ SomeNotOK(r2)
        /\ requests[r1].body = "{}\n"
        /\ requests[r2].body # "{}\n"

----------------------------------------------------------------------------
\* The units of a request whose outcome its collector has received.
ReceivedOf(r) ==
    {u \in UnitsOf(r) : units[u].pc \in {"return", "exit", "preport"}}
\* Among them, the one of the latest mapping that holds the name.
LastReceived(r, n) ==
    CHOOSE u \in ReceivedOf(r) :
        /\ u[3] = n
        /\ \A v \in ReceivedOf(r) : v[3] = n => v[2] <= u[2]

----------------------------------------------------------------------------
\* The collectChecks call has returned to handle.
PassReturned(p) ==
    requests[p[1]].pc = "done" \/ requests[p[1]].idx > p[2]

(* C13: once a collectChecks call has returned to handle, every unit it     *)
(* launched has ended: its outcome was received and its Error Reporter      *)
(* call, if any, has returned, so no send and no Error Reporter call of     *)
(* the pass is still to come.                                               *)
C13_UnitsEndedAtReturn ==
    \A p \in DOMAIN results : PassReturned(p) =>
        \A u \in UnitsOfPass(p) : units[u].pc = "exit"

\* Some goroutine of the collectChecks call the request is in can take a step.
PassCanStep(r) ==
    \/ ENABLED (\E f \in FullParams : CollectChecks(r, f))
    \/ ENABLED (\E u \in UnitsOfPass(CurrentPass(r)) :
                   RunCheck(u) \/ Receive(r, u) \/ UnitReturn(u))
    \/ ENABLED WaitThenClose(CurrentPass(r))
    \/ ENABLED (\E f \in FullParams : CollectReturn(r, f))

(* C14: a collectChecks call never gets stuck: while a request is inside    *)
(* one (or about to enter one), a unit, the collector or the wait-then-     *)
(* close goroutine of that call can take a step, whatever the number of     *)
(* checks and the interleaving; and when every request has been answered    *)
(* the read lock is free.                                                   *)
C14_PassNeverStuck ==
    /\ \A r \in DOMAIN requests :
         requests[r].pc \in {"collect", "range"} => PassCanStep(r)
    /\ (\A r \in DOMAIN requests : Done(r)) => readers = 0

----------------------------------------------------------------------------
\* An evaluation of a check set is in progress: units have been launched and
\* the collector has not returned.
Evaluating(r) == requests[r].pc = "range"

(* C15: from the launch of a check set's units until collectChecks returns  *)
(* no AddLivenessCheck or AddReadinessCheck call changes either mapping     *)
(* (the call takes effect only after the evaluation), whatever the number   *)
(* of evaluations holding the read lock together.                           *)
C15_NoAddDuringEvaluation ==
    [][(\E r \in DOMAIN requests : Evaluating(r)) =>
          /\ livenessChecks' = livenessChecks
          /\ readinessChecks' = readinessChecks]_vars

\* Two requests evaluate the same mapping together, and the registration
\* that preceded them is the only one so far.
C15_Witness ==
    /\ readers = 2
    /\ Len(requests) = 2
    /\ Evaluating(1) /\ Evaluating(2)
    /\ DOMAIN livenessChecks # {}

\* GET /ready: handle is given the readiness and the liveness mapping.
IsReady(r) == requests[r].sets = <<"readiness", "liveness">>

----------------------------------------------------------------------------
\* The units of request r whose outcome a collector has received.
OwnOutcomes(r) == {u \in UnitsOf(r) : units[u].receiver = r}

(* C17: every GET runs its own evaluation. A collector receives outcomes    *)
(* of units of its own request only; and for an answered GET each mapping   *)
(* of the endpoint was evaluated once, each check registered in it at that  *)
(* time was invoked by exactly one unit of the request (one per mapping for *)
(* a name in both), and the mapping and a 503 status come from outcomes of  *)
(* the request's own units.                                                 *)
C17_FreshIndependentPass ==
    /\ \A u \in DOMAIN units : units[u].receiver \in {0, u[1]}
    /\ \A r \in DOMAIN requests : Served(r) =>
         /\ PassesOf(r) = {<<r, i>> : i \in 1..Len(requests[r].sets)}
         /\ \A p \in PassesOf(r) :
              /\ {u[3] : u \in UnitsOfPass(p)} = DOMAIN evaluated[p].checks
              /\ \A u \in UnitsOfPass(p) :
                   /\ units[u].check = evaluated[p].checks[u[3]]
                   /\ units[u].pc # "check"
         /\ \A n \in DOMAIN requests[r].checkResults :
              \E u \in OwnOutcomes(r) :
                  u[3] = n /\ units[u].val = requests[r].checkResults[n]
         /\ requests[r].code = StatusServiceUnavailable =>
              \E u \in OwnOutcomes(r) : units[u].val # successCheckerResultString

\* An answered GET whose check was invoked and received, while a second GET
\* evaluates the same check with a unit of its own.
C17_Witness ==
    \E r1, r2 \in DOMAIN requests :
        /\ r1 # r2
        /\ Served(r1) /\ OwnOutcomes(r1) # {}
        /\ requests[r1].code = StatusServiceUnavailable
        /\ Evaluating(r2)
        /\ \E u \in UnitsOf(r2) : units[u].pc = "send"

(* C18: AddLivenessCheck(name, c) and AddReadinessCheck(name, c) set the    *)
(* entry of name in their own mapping to c, replacing an earlier one, and   *)
(* change nothing else: the other entries of that mapping and the whole     *)
(* other mapping stay as they were, also when it holds the same name.       *)
C18_AddChangesOneEntry ==
    [][\A n \in Names, c \in Checks :
          /\ AddLivenessCheck(n, c) =>
               /\ DOMAIN livenessChecks' = DOMAIN livenessChecks \cup {n}
               /\ livenessChecks'[n] = c
               /\ \A k \in DOMAIN livenessChecks \ {n} :
                      livenessChecks'[k] = livenessChecks[k]
               /\ readinessChecks' = readinessChecks
          /\ AddReadinessCheck(n, c) =>
               /\ DOMAIN readinessChecks' = DOMAIN readinessChecks \cup {n}
               /\ readinessChecks'[n] = c
               /\ \A k \in DOMAIN readinessChecks \ {n} :
                      readinessChecks'[k] = readinessChecks[k]
               /\ livenessChecks' = livenessChecks]_vars

\* Three registrations on the name "a" alone: one of them replaced an
\* earlier check, and the two mappings hold different checks for "a".
C18_Witness ==
    /\ calls = 3
    /\ requests = <<>>
    /\ errorHandler = "nil"
    /\ DOMAIN livenessChecks = {"a"}
    /\ DOMAIN readinessChecks = {"a"}
    /\ livenessChecks["a"] # readinessChecks["a"]

----------------------------------------------------------------------------
\* A GET /ready is between the evaluation of the readiness mapping and the
\* evaluation of the liveness mapping.
BetweenMappings(r) ==
    IsReady(r) /\ requests[r].pc = "collect" /\ requests[r].idx = 2

(* C19, as stated: no AddLivenessCheck or AddReadinessCheck call takes      *)
(* effect between the evaluation of the readiness mapping and the           *)
(* evaluation of the liveness mapping of one GET /ready.                    *)
C19_NoAddBetweenMappings ==
    [][(\E r \in DOMAIN requests : BetweenMappings(r)) =>
          /\ livenessChecks' = livenessChecks
          /\ readinessChecks' = readinessChecks]_vars

(* C19, amended: each mapping of a request is evaluated on a consistent     *)
(* snapshot of that mapping: while its evaluation is in progress the        *)
(* mapping is the one its units were launched from. The two mappings of a   *)
(* GET /ready are read under separate read locks, so a registration can     *)
(* take effect between them.                                                *)
C19_SnapshotPerMapping ==
    \A r \in DOMAIN requests : Evaluating(r) =>
        LET p == CurrentPass(r)
            m == Registry(requests[r].sets[requests[r].idx])
        IN /\ readers > 0
           /\ m = evaluated[p].checks
           /\ \A u \in UnitsOfPass(p) : units[u].check = m[u[3]]

\* A GET /ready evaluates its liveness mapping after a registration that
\* took effect once its readiness mapping had been evaluated: the readiness
\* mapping it evaluated is no longer the registered one.
C19_Witness ==
    \E r \in DOMAIN requests :
        /\ IsReady(r) /\ Evaluating(r) /\ requests[r].idx = 2
        /\ evaluated[<<r, 1>>].checks # readinessChecks

\* The collectChecks calls that are in progress.
InProgress == {CurrentPass(r) : r \in {q \in DOMAIN requests : Evaluating(q)}}

(* C20: AddCheckErrorHandler does not change the Error Reporter binding     *)
(* while an evaluation is in progress, so that every unit of one            *)
(* evaluation finds the binding the evaluation started with.                *)
C20_BindingFixedDuringPass ==
    [][(InProgress # {}) => errorHandler' = errorHandler]_vars

====
